---- MODULE Spec2Model ----
(***************************************************************************)
(* State-machine model of tasmota_tool.py: mDNS discovery and probing,     *)
(* the sequenced device configuration, the reboot wait, the MQTT listen    *)
(* window with payload validation, and the JSON report.                    *)
(***************************************************************************)
EXTENDS Integers, Sequences, FiniteSets, TLC

(* ------------------------------ bounds --------------------------------- *)
\* number of distinct IPv4 hosts that can advertise on the network
NumAddrs == 2
\* messages the broker delivers during one listen window
MaxMsgs == 2
\* listen duration (args.duration) in clock ticks
Duration == 1
\* wait_for_device timeout in seconds (scaled down from the default 30)
WaitTimeout == 2

(* -------------------------- program constants -------------------------- *)
\* timeout=2 of the Status 0 query
ProbeTimeout == 2
\* time.sleep(1) between two polls
PollSleep == 1

None == "None"
Redacted == "***"
RawResponse == "raw"

Truthy(v) == v \notin {None, ""}

(* ------------------------------ strings -------------------------------- *)
\* Python str values that are compared or sorted are sequences of code points
Dot == 46
Digit(d) == 48 + d

\* str(n) for 0 <= n <= 255, as inet_ntoa renders one octet
DecStr(n) ==
    IF n < 10 THEN <<Digit(n)>>
    ELSE IF n < 100 THEN <<Digit(n \div 10), Digit(n % 10)>>
    ELSE <<Digit(n \div 100), Digit((n \div 10) % 10), Digit(n % 10)>>

\* socket.inet_ntoa on a 4-byte packed address
inet_ntoa(addr) ==
    DecStr(addr[1]) \o <<Dot>> \o DecStr(addr[2]) \o <<Dot>> \o
    DecStr(addr[3]) \o <<Dot>> \o DecStr(addr[4])

\* Python's < on str: lexicographic by code point, a proper prefix is smaller
RECURSIVE StrLess(_, _)
StrLess(s, t) ==
    IF t = <<>> THEN FALSE
    ELSE IF s = <<>> THEN TRUE
    ELSE IF Head(s) # Head(t) THEN Head(s) < Head(t)
    ELSE StrLess(Tail(s), Tail(t))

\* a faulty ordering: descending instead of ascending
RECURSIVE sortedDescending(_)
sortedDescending(S) ==
    IF S = {} THEN <<>>
    ELSE LET m == CHOOSE x \in S : \A y \in S : x = y \/ StrLess(y, x)
         IN  <<m>> \o sortedDescending(S \ {m})

\* sorted(listener.ips): ascending by Python str comparison
RECURSIVE sorted(_)
sorted(S) ==
    IF S = {} THEN <<>>
    ELSE LET m == CHOOSE x \in S : \A y \in S : x = y \/ StrLess(x, y)
         IN  <<m>> \o sorted(S \ {m})

(* ------------------------------ network -------------------------------- *)
AddrPool == << <<10, 0, 0, 5>>, <<10, 0, 0, 10>>, <<10, 0, 0, 9>>,
               <<9, 0, 0, 200>>, <<192, 168, 1, 2>> >>
Addrs == {AddrPool[i] : i \in 1..NumAddrs}
\* a 16-byte packed IPv6 address
V6Addr == <<254, 128, 0, 0, 0, 0, 0, 0, 0, 0, 0, 0, 0, 0, 0, 1>>

\* info.addresses of the services a browse can resolve
ServiceInfos == {<<a>> : a \in Addrs} \cup {<<V6Addr>>, <<V6Addr, AddrPool[1]>>}

(* ------------------------------- probe --------------------------------- *)
HostName == <<116, 49>>
DevTopic == "tasmota_dev"

\* outcomes of the Status 0 query: the GET raised (transport error, timeout,
\* HTTP error status, body not JSON), a JSON value that is not an object, or
\* an object whose StatusNET / Status sections are absent, not objects, or
\* objects with or without the Hostname / Topic entry
Responses ==
    {[kind |-> "error", net |-> "absent", status |-> "absent"],
     [kind |-> "nondict", net |-> "absent", status |-> "absent"]} \cup
    [kind : {"dict"},
     net : {"absent", "nonobj", "nohost", "host"},
     status : {"absent", "nonobj", "notopic", "topic"}]

\* the try block of probe_tasmota, lines 55-61: exc is TRUE where a statement
\* raises (http_get_json raises, or .get is called on a section that is not
\* an object), otherwise value is what the block returns: <<>> is None,
\* <<dev>> is the device dict
probe_try(ip, resp) ==
    IF resp.kind = "error" THEN [exc |-> TRUE, value |-> <<>>]
    ELSE IF resp.kind # "dict" \/ resp.net = "absent" \/ resp.status = "absent"
    THEN [exc |-> FALSE, value |-> <<>>]
    ELSE IF resp.net = "nonobj" \/ resp.status = "nonobj"
    THEN [exc |-> TRUE, value |-> <<>>]
    ELSE [exc |-> FALSE,
          value |-> << [ip |-> ip,
                        hostname |-> IF resp.net = "host" THEN HostName ELSE ip,
                        topic |-> IF resp.status = "topic" THEN DevTopic
                                  ELSE None] >>]

\* a faulty handler: only the exceptions of the HTTP call are caught
probe_result_narrow(ip, resp) ==
    IF probe_try(ip, resp).exc
    THEN [raised |-> resp.kind # "error", dev |-> <<>>]
    ELSE [raised |-> FALSE, dev |-> probe_try(ip, resp).value]

\* a call of probe_tasmota, lines 53-63: except Exception turns every
\* exception of the try block into None; raised tells whether the call raised
probe_result(ip, resp) ==
    IF probe_try(ip, resp).exc THEN [raised |-> FALSE, dev |-> <<>>]
    ELSE [raised |-> FALSE, dev |-> probe_try(ip, resp).value]

\* the value probe_tasmota returns: <<>> is None, <<dev>> is the device dict
probe_tasmota(ip, resp) == probe_result(ip, resp).dev

(* ----------------------------- validation ------------------------------ *)
REQUIRED_KEYS == <<"Temperature", "Humidity", "Pressure">>

\* JSON value kinds of one sensor field
FieldVals == {"absent", "null", "int", "float", "bool", "str"}

\* the bytes of one MQTT message, by what json.loads makes of them: it raises,
\* yields a non-object value, or yields an object whose CustomSensor entry is
\* absent, null, a non-object value or an object with the three fields
Payloads ==
    [kind : {"object"}, cs : {"object"},
     Temperature : FieldVals, Humidity : FieldVals, Pressure : FieldVals] \cup
    [kind : {"object"}, cs : {"absent", "null", "nonobj"},
     Temperature : {"absent"}, Humidity : {"absent"}, Pressure : {"absent"}] \cup
    [kind : {"unparsable", "nonobj"}, cs : {"absent"},
     Temperature : {"absent"}, Humidity : {"absent"}, Pressure : {"absent"}]

\* isinstance(v, (int, float)): bool is a subclass of int
IsNumeric(v) == v \in {"int", "float", "bool"}

RECURSIVE FieldErrors(_, _)
FieldErrors(payload, k) ==
    IF k > Len(REQUIRED_KEYS) THEN <<>>
    ELSE LET key == REQUIRED_KEYS[k]
             v == payload[key]
             e == IF v \in {"absent", "null"} THEN << <<"Missing", key>> >>
                  ELSE IF ~IsNumeric(v) THEN << <<"not numeric", key>> >>
                  ELSE <<>>
         IN  e \o FieldErrors(payload, k + 1)

\* validate_payload on a parsed value: raised is TRUE where .get does not
\* exist on the value (AttributeError), otherwise errors is the returned list
validate_payload(payload) ==
    IF payload.kind # "object" THEN [raised |-> TRUE, errors |-> <<>>]
    ELSE IF payload.cs \in {"absent", "null"}
    THEN [raised |-> FALSE, errors |-> << <<"Missing", "CustomSensor">> >>]
    ELSE IF payload.cs = "nonobj" THEN [raised |-> TRUE, errors |-> <<>>]
    ELSE [raised |-> FALSE, errors |-> FieldErrors(payload, 1)]

\* the keys for which the loop body of lines 150-155 was entered
checked_keys(payload) ==
    IF payload.kind # "object" \/ payload.cs \in {"absent", "null"} THEN <<>>
    ELSE IF payload.cs = "nonobj" THEN <<REQUIRED_KEYS[1]>>
    ELSE REQUIRED_KEYS

\* on_message: the records list after the handler ran on msg, and whether the
\* handler raised out of the callback
on_message(results, ts, msg) ==
    IF msg.kind = "unparsable"
    THEN [raised |-> FALSE,
          results |-> Append(results, [ts |-> ts, valid |-> FALSE,
                                       errors |-> << <<"parse error">> >>])]
    ELSE LET r == validate_payload(msg)
         IN  IF r.raised THEN [raised |-> TRUE, results |-> results]
             ELSE [raised |-> FALSE,
                   results |-> Append(results,
                        [ts |-> ts, valid |-> Len(r.errors) = 0,
                         errors |-> r.errors, payload |-> msg])]

(* ------------------------------- report -------------------------------- *)
RECURSIVE CountValid(_)
CountValid(validation) ==
    IF validation = <<>> THEN 0
    ELSE (IF Head(validation).valid THEN 1 ELSE 0) + CountValid(Tail(validation))

\* a faulty pass rule: an empty validation list passes vacuously
generate_report_vacuous(devs, cfg, validation) ==
    LET passed == CountValid(validation)
    IN  [summary |-> [devices_found |-> Len(devs),
                      messages_received |-> Len(validation),
                      valid |-> passed,
                      invalid |-> Len(validation) - passed,
                      pass |-> passed = Len(validation)],
         devices |-> devs, configuration |-> cfg, validation |-> validation]

generate_report(devs, cfg, validation) ==
    LET passed == CountValid(validation)
    IN  [summary |-> [devices_found |-> Len(devs),
                      messages_received |-> Len(validation),
                      valid |-> passed,
                      invalid |-> Len(validation) - passed,
                      pass |-> passed > 0 /\ passed = Len(validation)],
         devices |-> devs, configuration |-> cfg, validation |-> validation]

(* ---------------------------- configuration ---------------------------- *)
\* the commands of configure, in statement order (lines 119-129)
Commands == <<"SSID1", "Password1", "MqttHost", "MqttPort",
              "MqttUser", "MqttPassword", "Topic", "TelePeriod">>

\* a faulty guard: the broker username is sent even when none was given
ApplicableAlways(k, user, pass, tpc) == TRUE

\* the if-guards of configure: statement k sends its command
Applicable(k, user, pass, tpc) ==
    CASE k = 5 -> Truthy(user)
      [] k = 6 -> Truthy(pass)
      [] k = 7 -> Truthy(tpc)
      [] OTHER -> TRUE

\* a faulty failure path: the error is swallowed and the command retried
AfterCommandRetry(ok, ln) ==
    IF ok THEN [pc |-> "configure", line |-> ln + 1]
    ELSE [pc |-> "configure", line |-> ln]

\* control after cmd() at statement ln: the next statement when it returned,
\* the exception leaves configure and main when it raised
AfterCommand(ok, ln) ==
    IF ok THEN [pc |-> "configure", line |-> ln + 1]
    ELSE [pc |-> "crashed", line |-> ln]

\* res[k] = v on a dict
Put(d, k, v) == [x \in (DOMAIN d) \cup {k} |-> IF x = k THEN v ELSE d[x]]
EmptyDict == [x \in {} |-> RawResponse]

\* lines 133-135: redact secrets before returning
redact(d) ==
    LET d1 == Put(d, "Password1", Redacted)
    IN  IF "MqttPassword" \in DOMAIN d1 THEN Put(d1, "MqttPassword", Redacted)
        ELSE d1

\* a faulty resolution: an unknown topic falls back to a default name
resolve_topic_default(argTopic, devs) ==
    IF Truthy(argTopic) THEN argTopic
    ELSE IF Truthy(devs[1].topic) THEN devs[1].topic ELSE "tasmota"

\* args.mqtt_topic or devices[0].get("topic")
resolve_topic(argTopic, devs) ==
    IF Truthy(argTopic) THEN argTopic ELSE devs[1].topic

(* ------------------------------- state --------------------------------- *)
VARIABLES
    args,        \* parsed command line
    pc,          \* position of main
    ips,         \* listener.ips
    queue,       \* addresses discover has still to probe
    probed,      \* probes discover has made, in order: address and success
    devices,     \* main's devices list
    topic,       \* main's topic
    target,      \* main's target
    line,        \* statement of configure to run next
    res,         \* configure's res dict
    sent,        \* <<ip, command>> of every cmd() call issued
    config_res,  \* main's config_res: <<>> while unbound
    now,         \* wait_for_device: seconds since it was entered
    polls,       \* wait_for_device: probes issued
    pollLog,     \* wait_for_device: address, start time and success of each probe
    waited,      \* wait_for_device: "none", "true" or "false"
    conn,        \* MQTT client: "idle", "connecting", "subscribed", "refused", "closed"
    subscribed,  \* topics passed to client.subscribe
    reports,     \* connect failures printed by on_connect
    loopAlive,   \* the network loop thread is running
    elapsed,     \* ticks of the listen window that have passed
    delivered,   \* messages handed to on_message, in arrival order
    results,     \* subscribe_and_validate's results list
    validation,  \* main's validation list: <<>> while unbound
    report,      \* the report written: <<>> before the write
    written,     \* number of writes of the report file
    callArg,     \* arguments of a direct call of validate_payload / probe_tasmota
    callRet      \* what the direct calls returned: <<>> before the call

vars == <<args, pc, ips, queue, probed, devices, topic, target, line, res, sent,
          config_res, now, polls, waited, conn, subscribed, reports, loopAlive,
          elapsed, delivered, results, validation, report, written, pollLog,
          callArg, callRet>>

discoverVars == <<ips, queue, probed>>
configVars == <<line, res, sent, config_res>>
waitVars == <<now, polls, pollLog, waited>>
callVars == <<callArg, callRet>>
mqttVars == <<conn, subscribed, reports, loopAlive, elapsed, delivered, results,
              validation>>
reportVars == <<report, written>>

\* the command lines modelled: --device-ip absent or given, --mqtt-topic absent
\* or given, broker credentials empty (the default) or given
ArgSets ==
    [device_ip : {<<>>, inet_ntoa(AddrPool[1])},
     mqtt_topic : {None, "cli_topic"},
     mqtt_user : {"", "user"},
     mqtt_pass : {"", "secret"}]

\* messages a broker delivers in the modelled runs: unparsable bytes, a JSON
\* value that is not an object, and a CustomSensor object that is complete or
\* lacks the pressure
Messages ==
    {p \in Payloads :
        \/ p.kind # "object"
        \/ /\ p.cs = "object" /\ p.Temperature = "int" /\ p.Humidity = "float"
           /\ p.Pressure \in {"int", "absent"}}

\* answers a host gives to Status 0 in the modelled runs: no usable answer, a
\* device that reports hostname and topic, a device that reports neither
LiveResponses ==
    {r \in Responses :
        \/ r.kind = "error"
        \/ r.kind = "dict" /\ r.net = "host" /\ r.status = "topic"
        \/ r.kind = "dict" /\ r.net = "nohost" /\ r.status = "notopic"}

\* the command lines of the modelled runs of main: broker credentials are
\* given as a pair or not at all
RunArgSets == {a \in ArgSets : Truthy(a.mqtt_user) <=> Truthy(a.mqtt_pass)}

\* no direct call is made in a run of main
NoCall == [payload |-> CHOOSE p \in Payloads : p.kind = "unparsable",
           resp |-> CHOOSE r \in Responses : r.kind = "error",
           ip |-> <<>>]
NoReturn == [validate |-> <<>>, probe |-> <<>>]

Init ==
    /\ args \in RunArgSets
    /\ pc = "start"
    /\ ips = {}
    /\ queue = <<>>
    /\ probed = <<>>
    /\ devices = <<>>
    /\ topic = None
    /\ target = <<>>
    /\ line = 1
    /\ res = EmptyDict
    /\ sent = <<>>
    /\ config_res = <<>>
    /\ now = 0
    /\ polls = 0
    /\ pollLog = <<>>
    /\ waited = "none"
    /\ conn = "idle"
    /\ subscribed = <<>>
    /\ reports = 0
    /\ loopAlive = FALSE
    /\ elapsed = 0
    /\ delivered = <<>>
    /\ results = <<>>
    /\ validation = <<>>
    /\ report = <<>>
    /\ written = 0
    /\ callArg = NoCall
    /\ callRet = NoReturn

(* ------------------------------ discovery ------------------------------ *)
\* main, lines 246-251: --device-ip given, one probe
ProbeGiven ==
    /\ pc = "start"
    /\ args.device_ip # <<>>
    /\ \E resp \in LiveResponses :
          devices' = probe_tasmota(args.device_ip, resp)
    /\ pc' = "discovered"
    /\ UNCHANGED <<callVars, args, discoverVars, topic, target, configVars, waitVars,
                   mqttVars, reportVars>>

\* discover, lines 68-71: the browse starts
StartScan ==
    /\ pc = "start"
    /\ args.device_ip = <<>>
    /\ pc' = "scan"
    /\ UNCHANGED <<callVars, args, discoverVars, devices, topic, target, configVars,
                   waitVars, mqttVars, reportVars>>

\* the IPv4 addresses add_service keeps of one resolved service
KeptAddresses(info) ==
    {inet_ntoa(info[i]) : i \in {j \in DOMAIN info : Len(info[j]) = 4}}

\* TasmotaListener.add_service while discover sleeps; info = <<>> stands for
\* get_service_info returning None
add_service(info) ==
    /\ pc = "scan"
    /\ ips' = ips \cup KeptAddresses(info)
    /\ UNCHANGED <<callVars, args, pc, queue, probed, devices, topic, target, configVars,
                   waitVars, mqttVars, reportVars>>

\* discover, lines 73-83: the sleep ends, the browse is cancelled
ScanDone ==
    /\ pc = "scan"
    /\ queue' = sorted(ips)
    /\ pc' = "probing"
    /\ UNCHANGED <<callVars, args, ips, probed, devices, topic, target, configVars,
                   waitVars, mqttVars, reportVars>>

\* discover, lines 83-86: one iteration of the probe loop
ProbeNext ==
    /\ pc = "probing"
    /\ queue # <<>>
    /\ \E resp \in LiveResponses :
          /\ devices' = devices \o probe_tasmota(Head(queue), resp)
          /\ probed' = Append(probed,
                 [ip |-> Head(queue),
                  ok |-> probe_tasmota(Head(queue), resp) # <<>>])
    /\ queue' = Tail(queue)
    /\ UNCHANGED <<callVars, args, pc, ips, topic, target, configVars, waitVars,
                   mqttVars, reportVars>>

\* discover, line 87
DiscoverReturn ==
    /\ pc = "probing"
    /\ queue = <<>>
    /\ pc' = "discovered"
    /\ UNCHANGED <<callVars, args, discoverVars, devices, topic, target, configVars,
                   waitVars, mqttVars, reportVars>>

\* main, lines 255-259
CheckDevices ==
    /\ pc = "discovered"
    /\ pc' = IF devices = <<>> THEN "done" ELSE "resolve"
    /\ UNCHANGED <<callVars, args, discoverVars, devices, topic, target, configVars,
                   waitVars, mqttVars, reportVars>>

\* a faulty choice: the address option instead of the confirmed device
choose_target_from_args(devs) == args.device_ip

\* a faulty choice: the last confirmed device instead of the first
choose_target_last(devs) == devs[Len(devs)].ip

\* main, line 269: target = devices[0]["ip"]
choose_target(devs) == devs[1].ip

\* main, lines 262-269: resolve the topic, return when there is none,
\* otherwise pick the target and enter configure
ResolveTopic ==
    /\ pc = "resolve"
    /\ topic' = resolve_topic(args.mqtt_topic, devices)
    /\ IF Truthy(topic')
       THEN /\ target' = choose_target(devices)
            /\ pc' = "configure"
       ELSE /\ target' = target
            /\ pc' = "done"
    /\ UNCHANGED <<callVars, args, discoverVars, devices, configVars, waitVars, mqttVars,
                   reportVars>>

(* ------------------------------ configure ------------------------------ *)
\* one res[...] = cmd(...) statement whose guard holds: the request is
\* issued, then cmd returns the response or raises
CfgSend ==
    /\ pc = "configure"
    /\ line <= Len(Commands)
    /\ Applicable(line, args.mqtt_user, args.mqtt_pass, topic)
    /\ sent' = Append(sent, <<target, Commands[line]>>)
    /\ \E ok \in BOOLEAN :
          /\ pc' = AfterCommand(ok, line).pc
          /\ line' = AfterCommand(ok, line).line
          /\ res' = IF ok THEN Put(res, Commands[line], RawResponse) ELSE res
    /\ UNCHANGED <<callVars, args, discoverVars, devices, topic, target, config_res,
                   waitVars, mqttVars, reportVars>>

\* an if-statement of configure whose guard is false
CfgSkip ==
    /\ pc = "configure"
    /\ line <= Len(Commands)
    /\ ~Applicable(line, args.mqtt_user, args.mqtt_pass, topic)
    /\ line' = line + 1
    /\ UNCHANGED <<callVars, args, pc, discoverVars, devices, topic, target, res, sent,
                   config_res, waitVars, mqttVars, reportVars>>

\* configure, lines 130-136, and the assignment at main line 270
CfgReturn ==
    /\ pc = "configure"
    /\ line = Len(Commands) + 1
    /\ res' = redact(res)
    /\ config_res' = <<redact(res)>>
    /\ pc' = "wait"
    /\ UNCHANGED <<callVars, args, discoverVars, devices, topic, target, line, sent,
                   waitVars, mqttVars, reportVars>>

(* --------------------------- wait_for_device --------------------------- *)
\* a faulty loop body: the sleep between two polls is missing
poll_step_nosleep(found, t, d) ==
    IF found THEN [ret |-> TRUE, now |-> t + d]
    ELSE [ret |-> FALSE, now |-> t + d]

\* the loop body, lines 103-106, entered at time t with a probe that takes d
\* seconds: return True when the probe found the device, otherwise sleep
poll_step(found, t, d) ==
    IF found THEN [ret |-> TRUE, now |-> t + d]
    ELSE [ret |-> FALSE, now |-> t + d + PollSleep]

\* one iteration of the poll loop, lines 102-106: a probe that takes d
\* seconds, then return True or sleep one second
WaitPoll ==
    /\ pc = "wait"
    /\ now < WaitTimeout
    /\ polls' = polls + 1
    /\ \E resp \in LiveResponses, d \in 0..ProbeTimeout :
          LET found == probe_tasmota(target, resp) # <<>>
              step == poll_step(found, now, d)
          IN  /\ pollLog' = Append(pollLog,
                     [ip |-> target, at |-> now, ok |-> found])
              /\ IF step.ret
                 THEN /\ waited' = "true"
                      /\ pc' = "validate"
                      /\ now' = 0
                 ELSE /\ waited' = waited
                      /\ pc' = pc
                      /\ now' = step.now
    /\ UNCHANGED <<callVars, args, discoverVars, devices, topic, target, configVars,
                   mqttVars, reportVars>>

\* lines 102, 107-108: the deadline has passed
WaitExpire ==
    /\ pc = "wait"
    /\ now >= WaitTimeout
    /\ waited' = "false"
    /\ now' = 0
    /\ pc' = "validate"
    /\ UNCHANGED <<callVars, args, discoverVars, devices, topic, target, configVars,
                   polls, pollLog, mqttVars, reportVars>>

(* ------------------------ subscribe_and_validate ----------------------- *)
\* lines 162-195: c.connect returns and the loop thread starts, or
\* c.connect raises and the exception leaves main
Connect ==
    /\ pc = "validate"
    /\ \E ok \in BOOLEAN :
          IF ok
          THEN /\ pc' = "listening"
               /\ conn' = "connecting"
               /\ loopAlive' = TRUE
          ELSE /\ pc' = "crashed"
               /\ conn' = conn
               /\ loopAlive' = loopAlive
    /\ UNCHANGED <<callVars, args, discoverVars, devices, topic, target, configVars,
                   waitVars, subscribed, reports, elapsed, delivered, results,
                   validation, reportVars>>

\* on_connect, lines 165-170, run by the loop thread on the broker's CONNACK
on_connect(rc) ==
    /\ loopAlive
    /\ conn = "connecting"
    /\ IF rc = 0
       THEN /\ conn' = "subscribed"
            /\ subscribed' = Append(subscribed, <<"tele", topic, "SENSOR">>)
            /\ reports' = reports
       ELSE /\ conn' = "refused"
            /\ subscribed' = subscribed
            /\ reports' = reports + 1
    /\ UNCHANGED <<callVars, args, pc, discoverVars, devices, topic, target, configVars,
                   waitVars, loopAlive, elapsed, delivered, results, validation,
                   reportVars>>

\* on_message, lines 172-180, run by the loop thread for one delivery; an
\* exception raised by the handler goes to the loop thread, which may end
OnMessage(msg) ==
    /\ loopAlive
    /\ conn = "subscribed"
    /\ Len(delivered) < MaxMsgs
    /\ delivered' = Append(delivered, msg)
    /\ results' = on_message(results, Len(delivered), msg).results
    /\ loopAlive' \in (IF on_message(results, Len(delivered), msg).raised
                       THEN BOOLEAN ELSE {TRUE})
    /\ UNCHANGED <<callVars, args, pc, discoverVars, devices, topic, target, configVars,
                   waitVars, conn, subscribed, reports, elapsed, validation,
                   reportVars>>

\* a faulty window: it also ends once a first message has been recorded
window_over_on_message(e, n) == e >= Duration \/ n >= 1

\* time.sleep(duration), line 196, returns when the duration has elapsed,
\* whatever the number n of messages handled so far
window_over(e, n) == e >= Duration

\* time.sleep(duration), line 196: one tick of the window passes
Tick ==
    /\ pc = "listening"
    /\ ~window_over(elapsed, Len(delivered))
    /\ elapsed' = elapsed + 1
    /\ UNCHANGED <<callVars, args, pc, discoverVars, devices, topic, target, configVars,
                   waitVars, conn, subscribed, reports, loopAlive, delivered,
                   results, validation, reportVars>>

\* a faulty shutdown: the loop thread is left running and connected
stop_client_missing(alive, c) == [loopAlive |-> alive, conn |-> c]

\* c.loop_stop() joins the loop thread and c.disconnect() closes the
\* connection, lines 197-198
stop_client(alive, c) == [loopAlive |-> FALSE, conn |-> "closed"]

\* lines 197-199 and the assignment at main line 280
WindowClose ==
    /\ pc = "listening"
    /\ window_over(elapsed, Len(delivered))
    /\ loopAlive' = stop_client(loopAlive, conn).loopAlive
    /\ conn' = stop_client(loopAlive, conn).conn
    /\ validation' = results
    /\ pc' = "report"
    /\ UNCHANGED <<callVars, args, discoverVars, devices, topic, target, configVars,
                   waitVars, subscribed, reports, elapsed, delivered, results,
                   reportVars>>

(* ------------------------------- report -------------------------------- *)
\* main, lines 286-288
GenerateReport ==
    /\ pc = "report"
    /\ report' = <<generate_report(devices, config_res[1], validation)>>
    /\ written' = written + 1
    /\ pc' = "done"
    /\ UNCHANGED <<callVars, args, discoverVars, devices, topic, target, configVars,
                   waitVars, mqttVars>>

Next ==
    \/ ProbeGiven
    \/ StartScan
    \/ \E info \in ServiceInfos \cup {<<>>} : add_service(info)
    \/ ScanDone
    \/ ProbeNext
    \/ DiscoverReturn
    \/ CheckDevices
    \/ ResolveTopic
    \/ CfgSend
    \/ CfgSkip
    \/ CfgReturn
    \/ WaitPoll
    \/ WaitExpire
    \/ Connect
    \/ \E rc \in {0, 5} : on_connect(rc)
    \/ \E msg \in Messages : OnMessage(msg)
    \/ Tick
    \/ WindowClose
    \/ GenerateReport

Spec == Init /\ [][Next]_vars

Terminal == {"done", "crashed"}

(* ----------------------- configure called directly --------------------- *)
\* configure as a function of its parameters: any credentials, any topic
\* value (absent, empty or given) and any address
InitConfigure ==
    /\ args \in ArgSets
    /\ pc = "configure"
    /\ topic \in {None, "", DevTopic}
    /\ target \in {inet_ntoa(a) : a \in Addrs}
    /\ ips = {}
    /\ queue = <<>>
    /\ probed = <<>>
    /\ devices = <<>>
    /\ line = 1
    /\ res = EmptyDict
    /\ sent = <<>>
    /\ config_res = <<>>
    /\ now = 0
    /\ polls = 0
    /\ pollLog = <<>>
    /\ waited = "none"
    /\ conn = "idle"
    /\ subscribed = <<>>
    /\ reports = 0
    /\ loopAlive = FALSE
    /\ elapsed = 0
    /\ delivered = <<>>
    /\ results = <<>>
    /\ validation = <<>>
    /\ report = <<>>
    /\ written = 0
    /\ callArg = NoCall
    /\ callRet = NoReturn

NextConfigure == CfgSend \/ CfgSkip \/ CfgReturn

SpecConfigure == InitConfigure /\ [][NextConfigure]_vars

(* ------------------- pure functions called directly -------------------- *)
\* validate_payload and probe_tasmota as functions of their arguments: any
\* parsed payload, any answer to Status 0 and any address
InitCalls ==
    /\ callArg \in [payload : Payloads, resp : Responses,
                    ip : {inet_ntoa(a) : a \in Addrs}]
    /\ callRet = NoReturn
    /\ args = [device_ip |-> <<>>, mqtt_topic |-> None, mqtt_user |-> "",
               mqtt_pass |-> ""]
    /\ pc = "call"
    /\ topic = None
    /\ target = <<>>
    /\ ips = {}
    /\ queue = <<>>
    /\ probed = <<>>
    /\ devices = <<>>
    /\ line = 1
    /\ res = EmptyDict
    /\ sent = <<>>
    /\ config_res = <<>>
    /\ now = 0
    /\ polls = 0
    /\ pollLog = <<>>
    /\ waited = "none"
    /\ conn = "idle"
    /\ subscribed = <<>>
    /\ reports = 0
    /\ loopAlive = FALSE
    /\ elapsed = 0
    /\ delivered = <<>>
    /\ results = <<>>
    /\ validation = <<>>
    /\ report = <<>>
    /\ written = 0

\* validate_payload(payload): whether it raised, the errors it returned and
\* the keys its loop looked at
CallValidate ==
    /\ pc = "call"
    /\ callRet.validate = <<>>
    /\ callRet' = [callRet EXCEPT !.validate =
          << [raised |-> validate_payload(callArg.payload).raised,
              errors |-> validate_payload(callArg.payload).errors,
              checked |-> checked_keys(callArg.payload)] >>]
    /\ UNCHANGED <<callArg, args, pc, discoverVars, devices, topic, target,
                   configVars, waitVars, mqttVars, reportVars>>

\* probe_tasmota(ip): whether it raised and what it returned
CallProbe ==
    /\ pc = "call"
    /\ callRet.probe = <<>>
    /\ callRet' = [callRet EXCEPT !.probe =
          <<probe_result(callArg.ip, callArg.resp)>>]
    /\ UNCHANGED <<callArg, args, pc, discoverVars, devices, topic, target,
                   configVars, waitVars, mqttVars, reportVars>>

NextCalls == CallValidate \/ CallProbe

SpecCalls == InitCalls /\ [][NextCalls]_vars

(* ============================== properties ============================= *)

\* C1: in every report written, valid + invalid = messages_received, the
\* count is the length of the validation list handed in, and pass is true
\* exactly when messages_received > 0 and valid = messages_received
C1_SummaryInvariant ==
    report # <<>> =>
        LET s == report[1].summary
        IN  /\ s.messages_received = Len(validation)
            /\ s.valid + s.invalid = s.messages_received
            /\ s.pass <=> (s.messages_received > 0 /\ s.valid = s.messages_received)

\* a report was written for a window in which no message arrived
C1_Witness ==
    /\ written = 1
    /\ report[1].summary.messages_received = 0
    /\ ~report[1].summary.pass

\* configure has been left, by return or by an exception
ConfigureExited == pc # "configure" /\ sent # <<>>

\* a command of configure raised
ConfigureFailed == pc = "crashed" /\ waited = "none"

\* c.connect raised
ConnectRaised == pc = "crashed" /\ waited # "none"

\* C2: on every exit path of configure, by return or by a raised command,
\* the Password1 and MqttPassword entries of the result, if present, hold
\* the redaction marker
C2_RedactedOnEveryExit ==
    ConfigureExited =>
        \A k \in {"Password1", "MqttPassword"} \cap DOMAIN res :
            res[k] = Redacted

\* the order and the presence rule of the claim, written out
C3_Plan ==
    SelectSeq(<<"SSID1", "Password1", "MqttHost", "MqttPort", "MqttUser",
                "MqttPassword", "Topic", "TelePeriod">>,
              LAMBDA c : /\ c = "MqttUser" => Truthy(args.mqtt_user)
                         /\ c = "MqttPassword" => Truthy(args.mqtt_pass)
                         /\ c = "Topic" => Truthy(topic))

\* C3: the commands sent so far are a prefix of the fixed order restricted to
\* the applicable commands, all to the address configure was given, and a
\* result is recorded for every command but possibly the last before the next
\* one is sent
C3_FixedOrder ==
    /\ Len(sent) <= Len(C3_Plan)
    /\ \A i \in 1..Len(sent) : sent[i] = <<target, C3_Plan[i]>>
    /\ \A i \in 1..(Len(sent) - 1) : C3_Plan[i] \in DOMAIN res
    /\ pc = "wait" => Len(sent) = Len(C3_Plan)

\* configure returned having sent only the five commands that are always sent
C3_Witness ==
    /\ pc = "wait"
    /\ Len(sent) = 5
    /\ sent[5][2] = "TelePeriod"

\* no command occurs twice in the log of issued commands
NoCommandTwice ==
    \A i, j \in 1..Len(sent) : sent[i] = sent[j] => i = j

\* C4: a command that fails ends the run with the exception (control never
\* returns to configure or main), nothing is sent after that, and no command
\* is sent twice
C4_FailureStops ==
    [][ /\ (sent' # sent /\ res' = res) => pc' = "crashed"
        /\ pc = "crashed" => (sent' = sent /\ pc' = "crashed")
        /\ NoCommandTwice' ]_vars

\* a command failed after two earlier commands had succeeded
C4_Witness ==
    /\ ConfigureFailed
    /\ Len(sent) = 3
    /\ DOMAIN res = {"SSID1", "Password1"}

\* C5: when a command fails after k > 0 commands succeeded, the caller holds a
\* configuration result with one entry per command issued before the failing one
C5_PartialResultsVisible ==
    (ConfigureFailed /\ Len(sent) > 1) =>
        /\ config_res # <<>>
        /\ Cardinality(DOMAIN config_res[1]) = Len(sent) - 1

\* C6: a run in which a device was confirmed and a topic resolved does not end
\* without a written report
C6_ReportAlwaysReached ==
    (pc \in Terminal /\ devices # <<>> /\ Truthy(topic)) => written = 1

\* C7: when the broker connection fails (connect raises, or on_connect gets a
\* non-zero result code) the failure is reported once, nothing is subscribed,
\* the run ends normally and its report has messages_received = 0, pass false
C7_BrokerFailureNonFatal ==
    (pc \in Terminal /\ (ConnectRaised \/ reports > 0)) =>
        /\ pc = "done"
        /\ reports = 1
        /\ subscribed = <<>>
        /\ written = 1
        /\ report[1].summary.messages_received = 0
        /\ ~report[1].summary.pass

\* C8: when no topic was passed and the first confirmed device reports none,
\* the run never enters configure: no command is sent, no broker connection is
\* made and no report is written
C8_NoTopicStops ==
    (/\ ~Truthy(args.mqtt_topic)
     /\ devices # <<>>
     /\ ~Truthy(devices[1].topic)) =>
        /\ pc \in {"start", "scan", "probing", "discovered", "resolve", "done"}
        /\ sent = <<>>
        /\ conn = "idle"
        /\ subscribed = <<>>
        /\ written = 0

\* a run that ended at the topic check with a device confirmed
C8_Witness ==
    /\ pc = "done"
    /\ devices # <<>>
    /\ ~Truthy(args.mqtt_topic)
    /\ ~Truthy(devices[1].topic)
    /\ sent = <<>>

\* C9: there is exactly one record per delivered message, in arrival order:
\* an unparsable message has valid = FALSE, one error and no payload, a
\* parsed message has its payload and valid = (errors are empty)
C9_OneRecordPerMessage ==
    /\ Len(results) = Len(delivered)
    /\ \A i \in 1..Len(results) :
          IF delivered[i].kind = "unparsable"
          THEN /\ ~results[i].valid
               /\ Len(results[i].errors) = 1
               /\ "payload" \notin DOMAIN results[i]
          ELSE /\ "payload" \in DOMAIN results[i]
               /\ results[i].payload = delivered[i]
               /\ results[i].valid = (results[i].errors = <<>>)

\* the octets a dotted-decimal text denotes
RECURSIVE Octets(_, _)
Octets(s, cur) ==
    IF s = <<>> THEN <<cur>>
    ELSE IF Head(s) = Dot THEN <<cur>> \o Octets(Tail(s), 0)
    ELSE Octets(Tail(s), 10 * cur + (Head(s) - Digit(0)))

\* a < b for two IPv4 addresses compared octet by octet
RECURSIVE AddrLess(_, _)
AddrLess(a, b) ==
    IF a = <<>> \/ b = <<>> THEN FALSE
    ELSE IF Head(a) # Head(b) THEN Head(a) < Head(b)
    ELSE AddrLess(Tail(a), Tail(b))

\* the addresses of the confirmed devices and of the successful probes
DeviceIps == [i \in 1..Len(devices) |-> devices[i].ip]
SucceededIps ==
    LET okp == SelectSeq(probed, LAMBDA e : e.ok)
    IN  [i \in 1..Len(okp) |-> okp[i].ip]

\* discover has returned
Discovered == args.device_ip = <<>> /\ pc \notin {"start", "scan", "probing"}

\* C10 as stated: the probes and the returned devices are in ascending order
\* of the addresses compared octet by octet
C10_AscendingByOctets ==
    /\ \A i, j \in 1..Len(probed) :
          i < j => AddrLess(Octets(probed[i].ip, 0), Octets(probed[j].ip, 0))
    /\ \A i, j \in 1..Len(devices) :
          i < j => AddrLess(Octets(devices[i].ip, 0), Octets(devices[j].ip, 0))

\* C10, amended: discover probes every collected address exactly once, in
\* ascending order of the addresses' dotted-decimal text compared as strings,
\* and returns exactly the devices whose probe succeeded, one per address, in
\* that same order
C10_AscendingByText ==
    /\ \A i, j \in 1..Len(probed) :
          i < j => StrLess(probed[i].ip, probed[j].ip)
    /\ \A i \in 1..Len(probed) : probed[i].ip \in ips
    /\ Discovered => {probed[i].ip : i \in 1..Len(probed)} = ips
    /\ args.device_ip = <<>> => DeviceIps = SucceededIps

\* discover has probed 10.0.0.10 and then 10.0.0.5 and returned the second
C10_Witness ==
    /\ Discovered
    /\ Len(probed) = 2
    /\ probed[1].ip = inet_ntoa(<<10, 0, 0, 10>>)
    /\ ~probed[1].ok
    /\ probed[2].ip = inet_ntoa(<<10, 0, 0, 5>>)
    /\ DeviceIps = <<inet_ntoa(<<10, 0, 0, 5>>)>>

\* validate_payload has been called on callArg.payload
Validated == callRet.validate # <<>>

\* the payload has no sensor section: it is not an object, or the
\* CustomSensor entry is absent or null
LacksSection(p) == p.kind # "object" \/ p.cs \in {"absent", "null"}

\* C11: for every parsed payload without the sensor section the call returns
\* (does not raise) exactly the one 'missing section' error, and no field of
\* the section is looked at
C11_MissingSectionSingleError ==
    (Validated /\ LacksSection(callArg.payload)) =>
        /\ ~callRet.validate[1].raised
        /\ callRet.validate[1].errors = << <<"Missing", "CustomSensor">> >>
        /\ callRet.validate[1].checked = <<>>

\* the errors the claim expects for a section: one per field, in field order,
\* for a field that is missing or whose value is not an integer or a float
RECURSIVE C12_Expected(_, _)
C12_Expected(p, k) ==
    IF k > 3 THEN <<>>
    ELSE LET key == <<"Temperature", "Humidity", "Pressure">>[k]
         IN  (IF p[key] \in {"int", "float"} THEN <<>> ELSE <<key>>)
             \o C12_Expected(p, k + 1)

\* the field each returned error names
C12_Named(errors) == [i \in 1..Len(errors) |-> errors[i][2]]

\* C12: for every payload whose sensor section is present the call returns one
\* error per field that is missing or not numeric (integer or float), in field
\* order: none when all three are numeric, exactly one naming the field when
\* exactly one field has a wrong type, boolean and string included
C12_OneErrorPerBadField ==
    (Validated /\ ~LacksSection(callArg.payload)) =>
        /\ ~callRet.validate[1].raised
        /\ C12_Named(callRet.validate[1].errors) = C12_Expected(callArg.payload, 1)

\* main runs on: the poll loop of wait_for_device and the sleep of the listen
\* window are never suspended for ever
FairSpec ==
    /\ Spec
    /\ WF_vars(WaitPoll) /\ WF_vars(WaitExpire)
    /\ WF_vars(Tick) /\ WF_vars(WindowClose)

\* what the poll log and the result of wait_for_device look like at any time
C13_PollInvariant ==
    \* a successful probe is the last one, and it makes the call return true
    /\ \A i \in 1..Len(pollLog) :
          pollLog[i].ok => (i = Len(pollLog) /\ waited = "true")
    \* true is returned only after a successful probe, false only after none
    /\ waited = "true" => (pollLog # <<>> /\ pollLog[Len(pollLog)].ok)
    /\ waited = "false" => \A i \in 1..Len(pollLog) : ~pollLog[i].ok
    \* every probe starts before the deadline
    /\ \A i \in 1..Len(pollLog) : pollLog[i].at < WaitTimeout
    \* a failed probe is followed by the one-second sleep
    /\ \A i \in 1..(Len(pollLog) - 1) :
          /\ pollLog[i + 1].at >= pollLog[i].at + PollSleep
          /\ pollLog[i + 1].at <= pollLog[i].at + ProbeTimeout + PollSleep

\* C13: wait_for_device returns true right after the first successful probe
\* and probes no more, returns false exactly when the deadline passed with no
\* successful probe, sleeps one second after each failed probe, and always
\* returns
C13_WaitForDevice ==
    /\ []C13_PollInvariant
    /\ [][ /\ pc # "wait" => pollLog' = pollLog
           /\ (waited = "none" /\ waited' = "false") => now >= WaitTimeout
           /\ (waited = "none" /\ waited' # "none") => pc' = "validate" ]_vars
    /\ (pc = "wait") ~> (pc # "wait")

\* the device never answered: two failed probes, then false
C13_Witness ==
    /\ waited = "false"
    /\ Len(pollLog) = 2
    /\ ~pollLog[1].ok /\ ~pollLog[2].ok

\* probe_tasmota has been called on callArg.ip with the answer callArg.resp
ProbeCalled == callRet.probe # <<>>

\* the answer is an object whose StatusNET and Status sections are objects
C14_BothSections(r) ==
    /\ r.kind = "dict"
    /\ r.net \in {"nohost", "host"}
    /\ r.status \in {"notopic", "topic"}

\* C14: probe_tasmota never raises; it returns None for every answer that is
\* not an object with both sections as objects, and otherwise the device with
\* the probed address, the reported hostname or else the address, and the
\* reported topic or else None
C14_ProbeNeverRaises ==
    ProbeCalled =>
        LET out == callRet.probe[1]
            r == callArg.resp
        IN  /\ ~out.raised
            /\ ~C14_BothSections(r) => out.dev = <<>>
            /\ C14_BothSections(r) =>
                  /\ Len(out.dev) = 1
                  /\ out.dev[1].ip = callArg.ip
                  /\ out.dev[1].hostname =
                        (IF r.net = "host" THEN HostName ELSE callArg.ip)
                  /\ out.dev[1].topic =
                        (IF r.status = "topic" THEN DevTopic ELSE None)

\* an answer whose network section is not an object was probed: None, no raise
C14_Witness ==
    /\ ProbeCalled
    /\ callArg.resp.net = "nonobj"
    /\ callArg.resp.status = "topic"
    /\ callRet.probe[1] = [raised |-> FALSE, dev |-> <<>>]

\* the stages of main come in order: nothing of a stage has happened before
\* the stage before it has returned
StageOrder ==
    /\ sent # <<>> => (devices # <<>> /\ pc \notin {"start", "scan", "probing"})
    /\ pollLog # <<>> => config_res # <<>>
    /\ (conn # "idle" \/ subscribed # <<>>) =>
          (config_res # <<>> /\ waited # "none")
    /\ written > 0 => (conn = "closed" /\ validation = results)

\* C15: the stages happen in the order discovery, configuration, reboot wait,
\* telemetry validation, report; the broker is not contacted before configure
\* and the reboot waiter have returned; and a run whose reboot waiter returned
\* false goes on to telemetry validation and ends with the report written
C15_StagesInOrder ==
    /\ StageOrder
    /\ waited = "false" => pc \in {"validate", "listening", "report", "done",
                                   "crashed"}
    /\ (waited = "false" /\ pc \in Terminal) => written = 1

\* C16: every configuration command and every reboot-wait probe of a run goes
\* to the address of the first device of the discovery result, also when
\* several devices were confirmed
C16_OneTarget ==
    /\ \A i \in 1..Len(sent) : sent[i][1] = devices[1].ip
    /\ \A i \in 1..Len(pollLog) : pollLog[i].ip = devices[1].ip
    /\ pc \in {"configure", "wait"} => target = devices[1].ip

\* two devices were confirmed, the first was configured and polled
C16_Witness ==
    /\ Len(devices) >= 2
    /\ devices[2].ip # devices[1].ip
    /\ config_res # <<>>
    /\ pollLog # <<>>

\* subscribe_and_validate has returned to main
StreamReturned == pc \in {"report", "done"}

\* C17: the report is written at most once and only after the listen window
\* closed, its validation list is the full list of records collected, and the
\* message handler appends or changes no record once subscribe_and_validate
\* has returned or the report is written
C17_WrittenOnceAfterWindow ==
    /\ [](/\ written <= 1
          /\ written = 1 =>
                /\ pc = "done"
                /\ conn = "closed"
                /\ ~loopAlive
                /\ report[1].validation = results
                /\ Len(results) <= Len(delivered))
    /\ [][ /\ written' # written => (pc = "report" /\ written' = written + 1)
           /\ (StreamReturned \/ written > 0) =>
                 (results' = results /\ delivered' = delivered
                  /\ validation' = validation)
           /\ written > 0 => report' = report ]_vars

\* a report was written that holds two records
C17_Witness ==
    /\ written = 1
    /\ Len(report[1].validation) >= 2
    /\ report[1].validation = results

\* C18: the listen window ends by time and not by message count: while the
\* duration has not elapsed subscribe_and_validate does not return, however
\* many messages were handled; it returns when the duration has elapsed, also
\* with no message at all; and it always returns
C18_TimeBoundedWindow ==
    /\ [](pc = "listening" => elapsed <= Duration)
    /\ [][ (pc = "listening" /\ pc' # "listening") =>
              (elapsed = Duration /\ pc' = "report" /\ validation' = results) ]_vars
    /\ [][ (pc = "listening" /\ elapsed = Duration) => elapsed' = elapsed ]_vars
    /\ (pc = "listening") ~> (pc = "report")

\* the window closed after its full duration with two messages handled
C18_Witness ==
    /\ pc = "report"
    /\ elapsed = Duration
    /\ Len(delivered) >= 2

\* C19: every configuration command goes to an address that probed
\* successfully earlier in the run, and a run whose discovery (or probe of the
\* given address) confirmed no device ends without a command, a reboot probe,
\* a broker connection or a report
C19_OnlyConfirmedDevices ==
    /\ \A i \in 1..Len(sent) :
          /\ \E d \in 1..Len(devices) : sent[i][1] = devices[d].ip
          /\ args.device_ip = <<>> =>
                \E k \in 1..Len(probed) : probed[k].ok /\ probed[k].ip = sent[i][1]
          /\ args.device_ip # <<>> => sent[i][1] = args.device_ip
    /\ devices = <<>> =>
          /\ pc \in {"start", "scan", "probing", "discovered", "done"}
          /\ sent = <<>>
          /\ pollLog = <<>>
          /\ conn = "idle"
          /\ written = 0

\* discovery probed two candidates, confirmed none, and the run ended
C19_Witness ==
    /\ pc = "done"
    /\ devices = <<>>
    /\ Len(probed) = 2
    /\ sent = <<>>
    /\ written = 0
====
